---- MODULE Spec2Model ----
(***************************************************************************)
(* A model of python-patchwork: patchwork/connection.py (Connection and    *)
(* its lazily created resources, disconnect, recv_exit_status) and         *)
(* patchwork/expect.py (Expect.expect_list, match, expect_retval).         *)
(*                                                                         *)
(* Four specifications share the Connection object:                       *)
(*   SpecNew     the constructor, on every instance argument;              *)
(*   Spec        the resource cache: lazy properties, the rpyc bootstrap,  *)
(*               disconnect and reconnect;                                 *)
(*   SpecRun     one call of recv_exit_status, or of Expect.expect_retval, *)
(*               against a remote command;                                 *)
(*   SpecExpect  one call of Expect.expect_list, or of Expect.match,       *)
(*               against a shell channel.                                  *)
(***************************************************************************)
EXTENDS Integers, Sequences, FiniteSets, TLC

\* ----------------------------------------------------------------- bounds
\* Instances one lazy property creates over a run.
MaxGen == 2

\* Time units (one poll interval each) a timeout may span.
MaxTimeout == 2
\* Chunks of output a remote command writes.
MaxChunks == 2

\* Chunks the remote shell writes during one expect_list.
MaxWrites == 2
\* The largest timeout (in ticks) given to expect_list.
MaxTicks == 2

\* stdout.read(1024)
ReadSize == 1024
\* connection.channel.recv(16384)
RecvSize == 16384

\* ------------------------------------------------------------ the values
Kinds == {"cli", "channel", "sftp", "pbm", "rpyc"}

\* The attribute _lazy_<name> is not set.
Absent == [t |-> "absent", id |-> 0]
\* Python's None (pbm and rpyc may cache it).
None == [t |-> "None", id |-> 0]
\* The g-th instance a factory made.
Obj(g) == [t |-> "obj", id |-> g]

\* Where an operation can raise; at most one exception ends an operation.
NoFail == "none"
AccessFails == {"connect", "invoke_shell", "open_sftp", "SshMachine"}
BootFails == {"tar", "put", "extract", "launch", "wait", "get", "parse", "ssh_connect"}
CloseFails == {"close_cli", "close_pbm", "close_rpyc"}

\* An exit status as recv_exit_status returns it: an integer, or None (unknown).
Status(n) == [t |-> "int", id |-> n]

VARIABLES
    \* ---- what the constructor sets (SpecNew)
    instance,         \* the instance argument: a hostname or a dict
    parameters,       \* self.parameters
    hostname,         \* self.hostname
    private_hostname, \* self.private_hostname: where cli and pbm connect to
    public_hostname,  \* self.public_hostname
    \* ---- the Connection's lazy attributes (Spec)
    cache,        \* kind -> Absent, None or Obj(g): the attribute _lazy_<kind>
    made,         \* kind -> the number of instances its factory has made
    owner,        \* "channel"/"sftp" -> the generation of the cli it was opened on
    open,         \* kind -> whether the cached instance is open
    disable_rpyc, \* the constructor's flag
    fault,        \* what raised during the last operation (NoFail: nothing)
    invoked,      \* the kinds whose factory the last operation invoked
    closed,       \* the kinds close() was called on by the last operation, in order
    localfs,      \* the last bootstrap's artifacts on the local host
    remotefs,     \* the last bootstrap's artifacts on the remote host
    steps,        \* the bootstrap steps the last operation executed, in order
    badstatus,    \* those of them whose command ended with a status other than 0
    last,         \* the last operation: [op, kind, raised, ret]
    \* ---- one call of recv_exit_status and its remote command (SpecRun)
    pc,           \* "idle", "loop" (line 258), "drain" (line 273), "done"
    now,          \* time.time(), in poll intervals
    timeout,      \* the deadline: time.time() + timeout (line 256)
    status,       \* the local status
    last_stdout,  \* self.last_stdout: pieces of the command's stdout
    last_stderr,  \* self.last_stderr: pieces of the command's stderr
    polled,       \* the loop has polled the finished command within the deadline
    cmd,          \* the remote command: [exits, code]
    chan,         \* its channel: what arrived and what was read
    expected_status, \* expect_retval's argument (Absent: recv_exit_status alone)
    verdict,      \* how expect_retval ended: "returned", "ExpectFailed", "raised"
    \* ---- one call of Expect.expect_list or Expect.match on the shell
    \* ---- channel (SpecExpect)
    epc,          \* "idle", "loop" (line 30), "match" (line 74), "done"
    regexp_list,  \* the (regexp, retvalue) pairs
    exp_timeout,  \* the timeout argument
    result,       \* the accumulated buffer
    count,        \* the tick counter
    inbuf,        \* what the shell wrote and recv has not returned yet
    writes,       \* the number of chunks the shell wrote
    received,     \* the chunks recv returned, in order
    outcome,      \* how the call ended: [kind, value, payload]
    match_regexp, \* match: the compiled regular expression (regexp)
    grouplist,    \* match: the groups to return
    ret_list,     \* match: the list returned
    reads         \* the number of recv calls made

newVars == <<instance, parameters, hostname, private_hostname, public_hostname>>

resVars == <<newVars, cache, made, owner, open, disable_rpyc, fault, invoked,
             closed, localfs, remotefs, steps, badstatus, last>>

runVars == <<pc, now, timeout, status, last_stdout, last_stderr, polled, cmd, chan,
             expected_status, verdict>>

expVars == <<epc, regexp_list, exp_timeout, result, count, inbuf, writes,
             received, outcome, match_regexp, grouplist, ret_list, reads>>

vars == <<resVars, runVars, expVars>>

\* The Connection as one value, for the operators that thread it.
Self == [cache |-> cache, made |-> made, owner |-> owner, open |-> open,
         disable_rpyc |-> disable_rpyc, fault |-> fault, invoked |-> invoked,
         closed |-> closed, localfs |-> localfs, remotefs |-> remotefs,
         steps |-> steps, badstatus |-> badstatus]

\* The outcome of a call: the Connection after it, the value, whether it raised.
Ret(s, v) == [s |-> s, val |-> v, exc |-> FALSE]
Raise(s) == [s |-> s, val |-> Absent, exc |-> TRUE]
\* The exception named f is raised.
Throw(s, f) == [s EXCEPT !.fault = f]

\* ------------------------------------------------------------- lazyprop
hasattr(s, k) == s.cache[k] # Absent

setattr(s, k, v) == [s EXCEPT !.cache[k] = v]

delattr(s, k) == [s EXCEPT !.cache[k] = Absent]

\* The factory of kind k ran, with the outcome fn.
Invoked(fn, k) == [fn EXCEPT !.s.invoked = @ \cup {k}]

\* A bug: the property calls its factory on every access.
lazyprop_nocache(s, k, fn) ==
    LET r == Invoked(fn, k)
    IN  IF r.exc
        THEN Raise(r.s)
        ELSE Ret(setattr(r.s, k, r.val), r.val)

\* A bug: a cached None counts as not cached.
lazyprop_truthy(s, k, fn) ==
    IF ~hasattr(s, k) \/ s.cache[k] = None
    THEN LET r == Invoked(fn, k)
         IN  IF r.exc
             THEN Raise(r.s)
             ELSE Ret(setattr(r.s, k, r.val), r.val)
    ELSE Ret(s, s.cache[k])

\* lazyprop(fn): fn is the outcome of fn(self) on s, used only when the
\* attribute is not set.
lazyprop(s, k, fn) ==
    IF ~hasattr(s, k)
    THEN LET r == Invoked(fn, k)
         IN  IF r.exc
             THEN Raise(r.s)
             ELSE Ret(setattr(r.s, k, r.val), r.val)
    ELSE Ret(s, s.cache[k])

\* A factory makes the next instance of kind k.
New(s, k) ==
    LET g == s.made[k] + 1
    IN  Ret([s EXCEPT !.made[k] = g, !.open[k] = TRUE], Obj(g))

\* ---------------------------------------------------------- the factories
cli_fn(s, fp) ==
    IF fp = "connect" THEN Raise(Throw(s, fp)) ELSE New(s, "cli")

cli(s, fp) == lazyprop(s, "cli", cli_fn(s, fp))

\* A channel of the client c: opening one on a closed client raises.
OpenOn(c, k, fp, point) ==
    IF c.exc THEN c
    ELSE IF fp = point \/ ~c.s.open["cli"] THEN Raise(Throw(c.s, point))
    ELSE LET n == New(c.s, k)
         IN  Ret([n.s EXCEPT !.owner[k] = c.val.id], n.val)

channel_fn(s, fp) == OpenOn(cli(s, fp), "channel", fp, "invoke_shell")

channel(s, fp) == lazyprop(s, "channel", channel_fn(s, fp))

sftp_fn(s, fp) == OpenOn(cli(s, fp), "sftp", fp, "open_sftp")

sftp(s, fp) == lazyprop(s, "sftp", sftp_fn(s, fp))

pbm_fn(s, fp) ==
    IF ~s.disable_rpyc
    THEN IF fp = "SshMachine" THEN Raise(Throw(s, fp)) ELSE New(s, "pbm")
    ELSE Ret(s, None)

pbm(s, fp) == lazyprop(s, "pbm", pbm_fn(s, fp))

\* ------------------------------------------------- the rpyc bootstrap
\* e is what the environment does during one bootstrap: e.fp the point that
\* raises (or NoFail), e.ex the exit status of the extraction, e.wt that of
\* the sentinel wait, e.sentinel whether the listener wrote the sentinel.
Step(s, name) == [s EXCEPT !.steps = Append(@, name)]

\* self.recv_exit_status(...) of the step name returned st.
Returned(s, name, st) ==
    IF st = Status(0) THEN s ELSE [s EXCEPT !.badstatus = @ \cup {name}]

\* A bug: the handler lets the exception through.
Uncaught(s) == Raise(s)

\* except Exception: the handles are reset and None is returned.
Caught(s) == Ret(s, None)

\* return rpyc.classic.ssh_connect(self.pbm, port)
boot_connect(s0, e) ==
    LET s == Step(s0, "ssh_connect")
        p == pbm(s, e.fp)
    IN  IF p.exc
        THEN Caught(p.s)
        ELSE IF e.fp = "ssh_connect" \/ p.val = None
        THEN Caught(Throw(p.s, "ssh_connect"))
        ELSE New(p.s, "rpyc")

\* port = int(pid_fd.read()); os.remove(pid_dest_filename)
boot_parse(s0, e) ==
    LET s == Step(s0, "parse")
    IN  IF e.fp = "parse"
        THEN Caught(Throw(s, "parse"))
        ELSE boot_connect([s EXCEPT !.localfs = @ \ {"pid"}], e)

\* self.sftp.get(pid_filename, pid_dest_filename)
boot_get(s0, e) ==
    LET s == Step(s0, "get")
        f == sftp(s, e.fp)
    IN  IF f.exc
        THEN Caught(f.s)
        ELSE IF e.fp = "get" \/ ~f.s.open["sftp"] \/ "pid" \notin f.s.remotefs
        THEN Caught(Throw(f.s, "get"))
        ELSE boot_parse([f.s EXCEPT !.localfs = @ \cup {"pid"}], e)

\* self.recv_exit_status("while [ ! -f pid ]; do sleep 1; done", 10): the
\* status is not looked at.
boot_wait(s0, e) ==
    LET s == Step(s0, "wait")
        c == cli(s, e.fp)
    IN  IF c.exc
        THEN Caught(c.s)
        ELSE IF e.fp = "wait"
        THEN Caught(Throw(c.s, "wait"))
        ELSE boot_get([Returned(c.s, "wait", e.wt) EXCEPT !.remotefs =
                          IF e.sentinel THEN @ \cup {"pid"} ELSE @], e)

\* self.exec_command("echo SERVER_SCRIPT | PYTHONPATH=... python", get_pty=True)
boot_launch(s0, e) ==
    LET s == Step(s0, "launch")
        c == cli(s, e.fp)
    IN  IF c.exc
        THEN Caught(c.s)
        ELSE IF e.fp = "launch"
        THEN Caught(Throw(c.s, "launch"))
        ELSE boot_wait(c.s, e)

\* self.recv_exit_status("tar -zxvf ... -C /tmp", 10): the status is not
\* looked at.
boot_extract(s0, e) ==
    LET s == Step(s0, "extract")
        c == cli(s, e.fp)
    IN  IF c.exc
        THEN Caught(c.s)
        ELSE IF e.fp = "extract"
        THEN Caught(Throw(c.s, "extract"))
        ELSE boot_launch([Returned(c.s, "extract", e.ex) EXCEPT !.remotefs =
                            IF e.ex = Status(0) THEN @ \cup {"tree"} ELSE @], e)

\* self.sftp.put(rnd_filename, rnd_dest_filename); os.remove(rnd_filename)
boot_put(s0, e) ==
    LET s == Step(s0, "put")
        f == sftp(s, e.fp)
    IN  IF f.exc
        THEN Caught(f.s)
        ELSE IF e.fp = "put" \/ ~f.s.open["sftp"]
        THEN Caught(Throw(f.s, "put"))
        ELSE boot_extract([f.s EXCEPT !.remotefs = @ \cup {"tar"},
                                      !.localfs = @ \ {"tar"}], e)

\* subprocess.check_call(["tar", "-cz", ...]): a fresh random id names the
\* artifacts of this run.
boot_tar(s0, e) ==
    LET s == Step([s0 EXCEPT !.localfs = {}, !.remotefs = {}], "tar")
    IN  IF e.fp = "tar"
        THEN Caught(Throw(s, "tar"))
        ELSE boot_put([s EXCEPT !.localfs = @ \cup {"tar"}], e)

rpyc_fn(s, e) ==
    IF ~s.disable_rpyc THEN boot_tar(s, e) ELSE Ret(s, None)

rpyc(s, e) == lazyprop(s, "rpyc", rpyc_fn(s, e))

\* ------------------------------------------------------------ disconnect
\* A bootstrap in which nothing goes wrong.
NoEnv == [fp |-> NoFail, ex |-> Status(0), wt |-> Status(0), sentinel |-> TRUE]

\* close() of the cached instance of kind k; closing the client closes the
\* transport and with it the channels opened on it.
Close(s, k) ==
    LET dies(j) == \/ j = k
                   \/ /\ k = "cli"
                      /\ j \in {"channel", "sftp"}
                      /\ s.cache["cli"] = Obj(s.owner[j])
    IN  [s EXCEPT !.open = [j \in Kinds |-> IF dies(j) THEN FALSE ELSE @[j]]]

CloseCalled(s, k) == [s EXCEPT !.closed = Append(@, k)]

\* if hasattr(self, '_lazy_rpyc'): self.rpyc.close(); delattr(self, '_lazy_rpyc')
disconnect_rpyc(s, fp) ==
    IF hasattr(s, "rpyc")
    THEN LET r == rpyc(s, NoEnv)
         IN  IF r.exc
             THEN r
             ELSE IF r.val = None
             THEN Raise(Throw(r.s, "AttributeError"))
             ELSE IF fp = "close_rpyc"
             THEN Raise(Throw(CloseCalled(r.s, "rpyc"), fp))
             ELSE Ret(delattr(Close(CloseCalled(r.s, "rpyc"), "rpyc"), "rpyc"), None)
    ELSE Ret(s, None)

\* if hasattr(self, '_lazy_pbm'): self.pbm.close(); delattr(self, '_lazy_pbm')
disconnect_pbm(s, fp) ==
    IF hasattr(s, "pbm")
    THEN LET r == pbm(s, NoFail)
         IN  IF r.exc
             THEN r
             ELSE IF r.val = None
             THEN Raise(Throw(r.s, "AttributeError"))
             ELSE IF fp = "close_pbm"
             THEN Raise(Throw(CloseCalled(r.s, "pbm"), fp))
             ELSE disconnect_rpyc(
                      delattr(Close(CloseCalled(r.s, "pbm"), "pbm"), "pbm"), fp)
    ELSE disconnect_rpyc(s, fp)

\* A bug: self.cli is read without the hasattr guard.
disconnect_cli_unguarded(s, fp) ==
    LET r == cli(s, NoFail)
    IN  IF r.exc
        THEN r
        ELSE IF fp = "close_cli"
        THEN Raise(Throw(CloseCalled(r.s, "cli"), fp))
        ELSE disconnect_pbm(
                 delattr(Close(CloseCalled(r.s, "cli"), "cli"), "cli"), fp)

\* if hasattr(self, '_lazy_cli'): self.cli.close(); delattr(self, '_lazy_cli')
disconnect_cli(s, fp) ==
    IF hasattr(s, "cli")
    THEN LET r == cli(s, NoFail)
         IN  IF r.exc
             THEN r
             ELSE IF fp = "close_cli"
             THEN Raise(Throw(CloseCalled(r.s, "cli"), fp))
             ELSE disconnect_pbm(
                      delattr(Close(CloseCalled(r.s, "cli"), "cli"), "cli"), fp)
    ELSE disconnect_pbm(s, fp)

disconnect(s, fp) == disconnect_cli(s, fp)

reconnect(s, fp) == disconnect(s, fp)

\* ------------------------------------------------- Connection.__init__
\* The keys of the instance dict the constructor looks at.
Keys == {"private_hostname", "public_hostname", "public_dns_name",
         "private_ip_address"}

\* Host names and addresses; "" is the empty public_dns_name of a VPC instance.
Names == {"", "a", "b"}

\* An attribute the constructor did not set.
Unset == "<unset>"

NoDict == [k \in {} |-> ""]

\* The instance argument: a str, or a dict (a function of its keys).
Str(x) == [type |-> "str", str |-> x, dict |-> NoDict]
Dict(d) == [type |-> "dict", str |-> "", dict |-> d]

Instances ==
    {Str(x) : x \in Names}
        \cup {Dict(d) : d \in UNION {[K -> Names] : K \in SUBSET Keys}}

\* Lines 52-55: self.parameters
parameters_of(inst) ==
    IF inst.type = "str"
    THEN [k \in {"private_hostname", "public_hostname"} |-> inst.str]
    ELSE inst.dict

All(x) == [hostname |-> x, private_hostname |-> x, public_hostname |-> x]

\* A bug: the public host name is taken as the target.
resolve_public(p) ==
    IF {"private_hostname", "public_hostname"} \subseteq DOMAIN p
    THEN All(p["public_hostname"])
    ELSE IF {"public_dns_name", "private_ip_address"} \subseteq DOMAIN p
    THEN All(p["public_dns_name"])
    ELSE All(Unset)

\* Lines 58-76: hostname, private_hostname and public_hostname.
resolve(p) ==
    IF {"private_hostname", "public_hostname"} \subseteq DOMAIN p
    THEN [hostname |-> p["private_hostname"],
          private_hostname |-> p["private_hostname"],
          public_hostname |-> p["public_hostname"]]
    ELSE IF {"public_dns_name", "private_ip_address"} \subseteq DOMAIN p
    THEN IF p["public_dns_name"] # ""
         THEN All(p["public_dns_name"])
         ELSE All(p["private_ip_address"])
    ELSE All(Unset)

\* ------------------------------------------------------------- the state
NoOp == [op |-> "init", kind |-> "", raised |-> FALSE, ret |-> Absent]

\* The constructor has not run yet.
NotYet == [op |-> "new", kind |-> "", raised |-> FALSE, ret |-> Absent]

\* Connection(inst)
Constructed(inst) ==
    /\ instance = inst
    /\ parameters = parameters_of(inst)
    /\ hostname = resolve(parameters_of(inst)).hostname
    /\ private_hostname = resolve(parameters_of(inst)).private_hostname
    /\ public_hostname = resolve(parameters_of(inst)).public_hostname
    /\ last = NoOp

InitLazy ==
    /\ cache = [k \in Kinds |-> Absent]
    /\ made = [k \in Kinds |-> 0]
    /\ owner = [k \in {"channel", "sftp"} |-> 0]
    /\ open = [k \in Kinds |-> FALSE]
    /\ disable_rpyc \in BOOLEAN
    /\ fault = NoFail
    /\ invoked = {}
    /\ closed = <<>>
    /\ localfs = {}
    /\ remotefs = {}
    /\ steps = <<>>
    /\ badstatus = {}

\* A Connection to the host "a".
InitRes == InitLazy /\ Constructed(Str("a"))

\* The Connection as an operation finds it.
Begin == [Self EXCEPT !.closed = <<>>, !.steps = <<>>, !.invoked = {},
                      !.fault = NoFail, !.badstatus = {}]

InBounds(s) == \A k \in Kinds : s.made[k] <= MaxGen

\* The operation op (on kind) left the Connection as r.
Effect(r, op, kind) ==
    /\ InBounds(r.s)
    /\ cache' = r.s.cache
    /\ made' = r.s.made
    /\ owner' = r.s.owner
    /\ open' = r.s.open
    /\ fault' = r.s.fault
    /\ invoked' = r.s.invoked
    /\ closed' = r.s.closed
    /\ localfs' = r.s.localfs
    /\ remotefs' = r.s.remotefs
    /\ steps' = r.s.steps
    /\ badstatus' = r.s.badstatus
    /\ last' = [op |-> op, kind |-> kind, raised |-> r.exc, ret |-> r.val]
    /\ UNCHANGED <<newVars, disable_rpyc>>

\* The operation op (on kind) ended as r.
Becomes(r, op, kind) ==
    /\ Effect(r, op, kind)
    /\ UNCHANGED <<runVars, expVars>>

\* ------------------------------------------------------------ the actions
GetCli ==
    \E fp \in {NoFail, "connect"} :
        Becomes(cli(Begin, fp), "get", "cli")

GetChannel ==
    \E fp \in {NoFail, "connect", "invoke_shell"} :
        Becomes(channel(Begin, fp), "get", "channel")

GetSftp ==
    \E fp \in {NoFail, "connect", "open_sftp"} :
        Becomes(sftp(Begin, fp), "get", "sftp")

GetPbm ==
    \E fp \in {NoFail, "SshMachine"} :
        Becomes(pbm(Begin, fp), "get", "pbm")

\* What can happen during one bootstrap: a sentinel wait that ended with
\* status 0 has seen the sentinel.
\* (What a bootstrap never gets to look at is left as in NoEnv.)
BootEnvs ==
    {e \in [fp : {NoFail, "connect", "open_sftp", "SshMachine"} \cup BootFails,
            ex : {Status(0), Status(2), None},
            wt : {Status(0), None},
            sentinel : BOOLEAN] :
        /\ e.wt = Status(0) => e.sentinel
        /\ e.fp \in {"tar", "put", "extract"} => e.ex = NoEnv.ex
        /\ e.fp \in {"tar", "put", "extract", "launch", "wait"} => e.wt = NoEnv.wt}

GetRpyc ==
    \E e \in IF hasattr(Self, "rpyc") THEN {NoEnv} ELSE BootEnvs :
        Becomes(rpyc(Begin, e), "get", "rpyc")

Disconnect ==
    \E fp \in {NoFail} \cup CloseFails :
        Becomes(disconnect(Begin, fp), "disconnect", "")

Reconnect ==
    \E fp \in {NoFail} \cup CloseFails :
        Becomes(reconnect(Begin, fp), "reconnect", "")

\* ------------------------------------------------- recv_exit_status
\* A string read from a stream of the command is the sequence of the pieces
\* read, a piece being the bytes lo..hi of what the command wrote to that
\* stream; adjacent pieces that continue each other are one piece.
Bytes(lo, hi) == IF lo > hi THEN <<>> ELSE <<[lo |-> lo, hi |-> hi]>>

\* a + b
Concat(a, b) ==
    IF a = <<>> THEN b
    ELSE IF b = <<>> THEN a
    ELSE IF a[Len(a)].hi + 1 = b[1].lo
    THEN SubSeq(a, 1, Len(a) - 1)
            \o <<[lo |-> a[Len(a)].lo, hi |-> b[1].hi]>>
            \o SubSeq(b, 2, Len(b))
    ELSE a \o b

\* stdout.read(n) on the non-blocking channel c: n bytes when that many
\* have arrived, what is left at the end of the stream, and socket.timeout
\* otherwise (what has arrived stays buffered for the next read).
stdout_read(c, n) ==
    LET avail == c.outSent - c.outRead
    IN  IF avail >= n
        THEN [timeout |-> FALSE, data |-> Bytes(c.outRead + 1, c.outRead + n),
              chan |-> [c EXCEPT !.outRead = @ + n]]
        ELSE IF c.eof
        THEN [timeout |-> FALSE, data |-> Bytes(c.outRead + 1, c.outSent),
              chan |-> [c EXCEPT !.outRead = c.outSent]]
        ELSE [timeout |-> TRUE, data |-> <<>>, chan |-> c]

\* stderr.read() on the blocking channel: everything up to the end of the
\* stream. It returns only once the stream has ended.
stderr_read(c) == Bytes(1, c.errSent)

NoChan == [outSent |-> 0, outRead |-> 0, errSent |-> 0, chunks |-> 0,
           exited |-> FALSE, eof |-> FALSE, closed |-> FALSE]

Commands == [exits : BOOLEAN, code : {0, 1}]

InitRun ==
    /\ pc = "idle"
    /\ now = 0
    /\ timeout = 0
    /\ status = None
    /\ last_stdout = <<>>
    /\ last_stderr = <<>>
    /\ polled = FALSE
    /\ cmd = [exits |-> TRUE, code |-> 0]
    /\ chan = NoChan
    /\ expected_status = Absent
    /\ verdict = "none"

\* A bug: an unknown status counts as 0.
retval_or_zero(retval, expected) ==
    LET v == IF retval = None THEN Status(0) ELSE retval
    IN  IF v # expected THEN "ExpectFailed" ELSE "returned"

\* expect.py, lines 117-122: what expect_retval does with the status that
\* recv_exit_status returned.
retval_check(retval, expected) ==
    IF retval = None THEN "ExpectFailed"
    ELSE IF retval # expected THEN "ExpectFailed"
    ELSE "returned"

\* Lines 245-256: the command is sent over the (lazily made) client, the
\* channel made non-blocking and the deadline set. The call is made by
\* expect_retval with the expected status es, or (es = Absent) directly.
Start(es) ==
    /\ pc = "idle"
    /\ \E fp \in {NoFail, "connect", "exec_command"}, t \in 1..MaxTimeout,
          command \in Commands :
          LET c == cli(Begin, fp)
              r == IF c.exc THEN c
                   ELSE IF fp = "exec_command" THEN Raise(Throw(c.s, fp))
                   ELSE Ret(c.s, Absent)
          IN  /\ Effect(r, "recv_exit_status", "")
              /\ pc' = IF r.exc THEN "done" ELSE "loop"
              /\ timeout' = IF r.exc THEN timeout ELSE now + t
              /\ cmd' = command
              /\ expected_status' = es
              /\ verdict' = IF r.exc /\ es # Absent THEN "raised" ELSE "none"
              /\ UNCHANGED <<now, status, last_stdout, last_stderr, polled,
                             chan>>
              /\ UNCHANGED expVars

recv_exit_status == Start(Absent)

\* expect.py, line 116: retval = connection.recv_exit_status(command, timeout)
expect_retval == \E es \in {Status(0), Status(1)} : Start(es)

\* Lines 258-271: one pass of the while loop.
Poll ==
    /\ pc = "loop"
    /\ IF now <= timeout
       THEN LET r == stdout_read(chan, ReadSize)
            IN  /\ chan' = r.chan
                /\ polled' = (polled \/ (chan.exited /\ chan.eof))
                /\ IF r.timeout
                   THEN \* time.sleep(0.1); continue
                        /\ now' = now + 1
                        /\ UNCHANGED <<pc, status, last_stdout>>
                   ELSE /\ last_stdout' = Concat(last_stdout, r.data)
                        /\ IF chan.exited
                           THEN status' = Status(cmd.code) /\ pc' = "drain"
                           ELSE UNCHANGED <<pc, status>>
                        /\ UNCHANGED now
       ELSE /\ pc' = "drain"
            /\ UNCHANGED <<now, status, last_stdout, polled, chan>>
    /\ UNCHANGED <<resVars, expVars, timeout, last_stderr, cmd, expected_status,
                   verdict>>

\* Lines 273-282: the channel is made blocking, stderr read to its end, the
\* streams closed and the status returned; expect_retval then checks it.
Drain ==
    /\ pc = "drain"
    /\ chan.eof
    /\ last_stderr' = stderr_read(chan)
    /\ chan' = [chan EXCEPT !.closed = TRUE]
    /\ pc' = "done"
    /\ last' = [op |-> "recv_exit_status", kind |-> "", raised |-> FALSE,
                ret |-> status]
    /\ UNCHANGED <<newVars, cache, made, owner, open, disable_rpyc, fault,
                   invoked, closed, localfs, remotefs, steps, badstatus>>
    /\ verdict' = IF expected_status = Absent THEN "none"
                  ELSE retval_check(status, expected_status)
    /\ UNCHANGED <<now, timeout, status, last_stdout, polled, cmd,
                   expected_status>>
    /\ UNCHANGED expVars

\* ---- the remote side
Running == pc \in {"loop", "drain"} /\ ~chan.exited

\* The command writes a chunk to its stdout.
RemoteStdout ==
    /\ Running
    /\ chan.chunks < MaxChunks
    /\ \E n \in {6, ReadSize} :
          chan' = [chan EXCEPT !.outSent = @ + n, !.chunks = @ + 1]
    /\ UNCHANGED <<resVars, expVars, pc, now, timeout, status, last_stdout,
                   last_stderr, polled, cmd, expected_status, verdict>>

\* The command writes a chunk to its stderr.
RemoteStderr ==
    /\ Running
    /\ chan.chunks < MaxChunks
    /\ chan' = [chan EXCEPT !.errSent = @ + 6, !.chunks = @ + 1]
    /\ UNCHANGED <<resVars, expVars, pc, now, timeout, status, last_stdout,
                   last_stderr, polled, cmd, expected_status, verdict>>

\* The command ends: its exit status is posted on the channel.
RemoteExit ==
    /\ Running
    /\ cmd.exits
    /\ chan' = [chan EXCEPT !.exited = TRUE]
    /\ UNCHANGED <<resVars, expVars, pc, now, timeout, status, last_stdout,
                   last_stderr, polled, cmd, expected_status, verdict>>

\* The streams of the ended command reach their end.
RemoteEof ==
    /\ chan.exited /\ ~chan.eof
    /\ chan' = [chan EXCEPT !.eof = TRUE]
    /\ UNCHANGED <<resVars, expVars, pc, now, timeout, status, last_stdout,
                   last_stderr, polled, cmd, expected_status, verdict>>

\* Time passes.
Tick ==
    /\ pc = "loop"
    /\ now <= timeout
    /\ now' = now + 1
    /\ UNCHANGED <<resVars, expVars, pc, timeout, status, last_stdout, last_stderr,
                   polled, cmd, chan, expected_status, verdict>>

\* ------------------------------------------------- Expect.expect_list
\* A string is the sequence of its characters. A regular expression is a
\* sequence of atoms: a character, which matches itself, or DotStar, the
\* ".*" of a pattern compiled with re.DOTALL, which matches any string.
DotStar == ".*"

Foo == <<"f", "o", "o">>
Bar == <<"b", "a", "r">>
XBarX == <<"x", "b", "a", "r", "x">>

\* The atoms pat[i..] match a prefix of buf[j..].
RECURSIVE match_here(_, _, _, _)
match_here(pat, i, buf, j) ==
    IF i > Len(pat) THEN TRUE
    ELSE IF pat[i] = DotStar
    THEN \E k \in j..(Len(buf) + 1) : match_here(pat, i + 1, buf, k)
    ELSE /\ j <= Len(buf)
         /\ buf[j] = pat[i]
         /\ match_here(pat, i + 1, buf, j + 1)

\* A bug: re.search, which looks for the pattern anywhere in the string.
re_search(pat, buf) ==
    \E j \in 1..(Len(buf) + 1) : match_here(pat, 1, buf, j)

\* re.match(regexp, result): the pattern matches at the start of the string.
re_match(pat, buf) == match_here(pat, 1, buf, 1)

\* A bug: the loop goes on after a match, so the last matching pair wins.
RECURSIVE last_match(_, _, _)
last_match(list, buf, i) ==
    IF i > Len(list) THEN 0
    ELSE LET later == last_match(list, buf, i + 1)
         IN  IF later # 0 THEN later
             ELSE IF re_match(list[i].regexp, buf) THEN i ELSE 0

\* for (regexp, retvalue) in regexp_list: if re.match(regexp, result):
\* return retvalue. The index of the pair that returns, from the i-th on, or 0.
RECURSIVE first_match(_, _, _)
first_match(list, buf, i) ==
    IF i > Len(list) THEN 0
    ELSE IF re_match(list[i].regexp, buf) THEN i
    ELSE first_match(list, buf, i + 1)

\* Expect.expect: the list [(re.compile(".*" + strexp + ".*", re.DOTALL), True)]
expect(strexp) ==
    <<[regexp |-> <<DotStar>> \o strexp \o <<DotStar>>, retvalue |-> "True"]>>

Pair(regexp, retvalue) == [regexp |-> regexp, retvalue |-> retvalue]

\* The lists expect_list is called with.
FooBar == <<Pair(Foo, "A"), Pair(Bar, "B")>>

PatternLists ==
    { FooBar,
      <<Pair(<<"b">>, "A"), Pair(Bar, "B")>>,
      <<Pair(Bar, "B"), Pair(<<"b">>, "A")>>,
      <<Pair(<<DotStar, "x">>, "X"), Pair(Bar, "B"), Pair(<<DotStar>>, "any")>>,
      expect(Bar) }

\* The chunks the remote shell writes.
ShellChunks == { <<"x">>, <<"b">>, <<"a", "r">>, Bar, XBarX, Foo }

NoOutcome == [kind |-> "none", value |-> "", payload |-> <<>>]

InitExpect ==
    /\ epc = "idle"
    /\ regexp_list = <<>>
    /\ exp_timeout = 0
    /\ result = <<>>
    /\ count = 0
    /\ inbuf = <<>>
    /\ writes = 0
    /\ received = <<>>
    /\ outcome = NoOutcome
    /\ match_regexp = <<>>
    /\ grouplist = <<>>
    /\ ret_list = <<>>
    /\ reads = 0

\* Lines 28-29: the call starts with an empty buffer and tick counter.
expect_list ==
    /\ epc = "idle"
    /\ \E list \in PatternLists, t \in -1..MaxTicks :
          /\ regexp_list' = list
          /\ exp_timeout' = t
    /\ epc' = "loop"
    /\ result' = <<>>
    /\ count' = 0
    /\ UNCHANGED <<resVars, runVars, inbuf, writes, received, outcome, match_regexp,
                   grouplist, ret_list, reads>>

\* connection.channel.recv(n) on the non-blocking shell channel: up to n
\* characters of what has arrived, or socket.timeout when nothing has.
recv(buf, n) ==
    IF buf = <<>>
    THEN [timeout |-> TRUE, data |-> <<>>, rest |-> buf]
    ELSE LET m == IF Len(buf) < n THEN Len(buf) ELSE n
         IN  [timeout |-> FALSE, data |-> SubSeq(buf, 1, m),
              rest |-> SubSeq(buf, m + 1, Len(buf))]

\* A bug: the buffer holds the last chunk only.
overwrite(buf, recv_part) == recv_part

\* result += recv_part
accumulate(buf, recv_part) == buf \o recv_part

\* Lines 30-47: one pass of the while loop (a tick), or the raise after it.
ExpectTick ==
    /\ epc = "loop"
    /\ IF count < exp_timeout
       THEN \E fp \in {NoFail, "connect", "invoke_shell"} :
              LET ch == channel(Begin, fp)
                  r == recv(inbuf, RecvSize)
                  buf == accumulate(result, r.data)
                  m == first_match(regexp_list, buf, 1)
              IN  /\ Effect(ch, "expect_list", "")
                  /\ IF ch.exc
                     THEN /\ epc' = "done"
                          /\ outcome' = [NoOutcome EXCEPT !.kind = "error"]
                          /\ UNCHANGED <<result, count, inbuf, received, reads>>
                     ELSE /\ inbuf' = r.rest
                          /\ reads' = reads + 1
                          /\ received' = IF r.timeout THEN received
                                         ELSE Append(received, r.data)
                          /\ result' = buf
                          /\ IF m # 0
                             THEN /\ epc' = "done"
                                  /\ outcome' = [kind |-> "return",
                                                 value |-> regexp_list[m].retvalue,
                                                 payload |-> <<>>]
                                  /\ UNCHANGED count
                             ELSE /\ count' = count + 1
                                  /\ UNCHANGED <<epc, outcome>>
       ELSE /\ epc' = "done"
            /\ outcome' = [kind |-> "ExpectFailed", value |-> "",
                           payload |-> result]
            /\ UNCHANGED <<resVars, result, count, inbuf, received, reads>>
    /\ UNCHANGED <<runVars, regexp_list, exp_timeout, writes, match_regexp, grouplist,
                   ret_list>>

\* ------------------------------------------------------- Expect.match
\* A compiled regular expression given to match is a sequence of
\* alternatives, tried in order; an alternative is a string of characters,
\* and is group 1 of the expression (group = 1) or in no group (group = 0).
Alt(atoms, group) == [atoms |-> atoms, group |-> group]

\* "(bar)", "(foo)|bar" and "bar"
MatchRegexps ==
    { <<Alt(Bar, 1)>>, <<Alt(Foo, 1), Alt(Bar, 0)>>, <<Alt(Bar, 0)>> }

\* grouplist: the default [1], [0] and [0, 1]
GroupLists == { <<1>>, <<0>>, <<0, 1>> }

\* The groups the expression has, besides group 0 (the whole match).
Groups(re) == {re[i].group : i \in 1..Len(re)} \ {0}

\* regexp.match(result): the first alternative that matches at the start of
\* the string, from the i-th on, or 0 (no match).
RECURSIVE regexp_match(_, _, _)
regexp_match(re, buf, i) ==
    IF i > Len(re) THEN 0
    ELSE IF re_match(re[i].atoms, buf) THEN i
    ELSE regexp_match(re, buf, i + 1)

\* match.group(g) of the match of the alternative alt: the matched text for
\* group 0 and for a group that took part in the match, None for a group
\* that did not, and IndexError for a group the expression does not have.
group(re, alt, g) ==
    IF g = 0 \/ (g \in Groups(re) /\ re[alt].group = g)
    THEN [kind |-> "str", text |-> re[alt].atoms]
    ELSE IF g \in Groups(re)
    THEN [kind |-> "None", text |-> <<>>]
    ELSE [kind |-> "IndexError", text |-> <<>>]

\* Lines 87-91: for group in grouplist: logging.debug("matched: " +
\* match.group(group)); ret_list.append(match.group(group)). The string
\* concatenation raises TypeError for a group that is None.
RECURSIVE collect(_, _, _, _, _)
collect(re, alt, groups, i, ret) ==
    IF i > Len(groups) THEN [kind |-> "return", list |-> ret]
    ELSE LET g == group(re, alt, groups[i])
         IN  IF g.kind = "IndexError" THEN [kind |-> "IndexError", list |-> <<>>]
             ELSE IF g.kind = "None" THEN [kind |-> "TypeError", list |-> <<>>]
             ELSE collect(re, alt, groups, i + 1, Append(ret, g.text))

\* Lines 72-73: the call starts with an empty buffer and tick counter.
match ==
    /\ epc = "idle"
    /\ \E re \in MatchRegexps, groups \in GroupLists, t \in -1..MaxTicks :
          /\ match_regexp' = re
          /\ grouplist' = groups
          /\ exp_timeout' = t
    /\ epc' = "match"
    /\ result' = <<>>
    /\ count' = 0
    /\ UNCHANGED <<resVars, runVars, regexp_list, inbuf, writes, received,
                   outcome, ret_list, reads>>

\* Lines 74-94: one pass of the while loop (a tick), or the raise after it.
MatchTick ==
    /\ epc = "match"
    /\ IF count < exp_timeout
       THEN \E fp \in {NoFail, "connect", "invoke_shell"} :
              LET ch == channel(Begin, fp)
                  r == recv(inbuf, RecvSize)
                  buf == accumulate(result, r.data)
                  m == regexp_match(match_regexp, buf, 1)
                  c == collect(match_regexp, m, grouplist, 1, <<>>)
              IN  /\ Effect(ch, "match", "")
                  /\ IF ch.exc
                     THEN /\ epc' = "done"
                          /\ outcome' = [NoOutcome EXCEPT !.kind = "error"]
                          /\ UNCHANGED <<result, count, inbuf, received, reads,
                                         ret_list>>
                     ELSE /\ inbuf' = r.rest
                          /\ reads' = reads + 1
                          /\ received' = IF r.timeout THEN received
                                         ELSE Append(received, r.data)
                          /\ result' = buf
                          /\ IF m # 0
                             THEN /\ epc' = "done"
                                  /\ outcome' = [NoOutcome EXCEPT !.kind = c.kind]
                                  /\ ret_list' = c.list
                                  /\ UNCHANGED count
                             ELSE /\ count' = count + 1
                                  /\ UNCHANGED <<epc, outcome, ret_list>>
       ELSE /\ epc' = "done"
            /\ outcome' = [kind |-> "ExpectFailed", value |-> "",
                           payload |-> result]
            /\ UNCHANGED <<resVars, result, count, inbuf, received, reads,
                           ret_list>>
    /\ UNCHANGED <<runVars, regexp_list, exp_timeout, writes, match_regexp,
                   grouplist>>

\* The remote shell writes a chunk to the open shell channel.
ShellWrites ==
    /\ epc \in {"loop", "match"}
    /\ hasattr(Self, "channel") /\ open["channel"]
    /\ writes < MaxWrites
    /\ \E chunk \in ShellChunks : inbuf' = inbuf \o chunk
    /\ writes' = writes + 1
    /\ UNCHANGED <<resVars, runVars, epc, regexp_list, exp_timeout, result,
                   count, received, outcome, match_regexp, grouplist, ret_list, reads>>

\* The shell may have been opened before the call (an access to
\* connection.channel), or is opened by its first tick.
NextExpect ==
    \/ epc = "idle" /\ GetChannel
    \/ expect_list
    \/ ExpectTick
    \/ match
    \/ MatchTick
    \/ ShellWrites

InitAll == InitRes /\ InitRun /\ InitExpect

SpecExpect == InitAll /\ [][NextExpect]_vars

NextRun ==
    \/ recv_exit_status
    \/ expect_retval
    \/ Poll
    \/ Drain
    \/ RemoteStdout
    \/ RemoteStderr
    \/ RemoteExit
    \/ RemoteEof
    \/ Tick

SpecRun == InitAll /\ [][NextRun]_vars

Init == InitAll

Next ==
    \/ GetCli
    \/ GetChannel
    \/ GetSftp
    \/ GetPbm
    \/ GetRpyc
    \/ Disconnect
    \/ Reconnect

Spec == Init /\ [][Next]_vars

\* ---- the constructor on every instance argument
InitNew ==
    /\ instance \in Instances
    /\ parameters = NoDict
    /\ hostname = Unset
    /\ private_hostname = Unset
    /\ public_hostname = Unset
    /\ last = NotYet
    /\ InitLazy
    /\ InitRun
    /\ InitExpect

\* Lines 52-92: the parameters and the host names are set, the debugging
\* buffers are empty and no lazy attribute exists.
__init__ ==
    /\ last = NotYet
    /\ parameters' = parameters_of(instance)
    /\ hostname' = resolve(parameters').hostname
    /\ private_hostname' = resolve(parameters').private_hostname
    /\ public_hostname' = resolve(parameters').public_hostname
    /\ last' = NoOp
    /\ UNCHANGED <<instance, cache, made, owner, open, disable_rpyc, fault,
                   invoked, closed, localfs, remotefs, steps, badstatus>>
    /\ UNCHANGED <<runVars, expVars>>

NextNew == __init__

SpecNew == InitNew /\ [][NextNew]_vars

\* ===================================================== the claims: Spec
Range(seq) == {seq[i] : i \in 1..Len(seq)}

\* a is closed before b in the sequence of close() calls.
ClosedBefore(seq, a, b) ==
    \E i, j \in 1..Len(seq) : i < j /\ seq[i] = a /\ seq[j] = b

\* The transport, the shell channel, the file-transfer channel and the
\* bridge are all cached.
AllFourCached ==
    /\ \A k \in {"cli", "channel", "sftp"} : cache[k] # Absent
    /\ cache["rpyc"].t = "obj"

\* The last operation was an access to kind k.
Got(k) == last.op = "get" /\ last.kind = k

\* C1: with the transport, the shell channel, the file-transfer channel and
\* the bridge all cached, a disconnect() that raises nothing closes the
\* bridge before the file-transfer channel, that before the shell channel,
\* and that before the transport.
C1_DisconnectOrder ==
    [][(AllFourCached /\ last'.op = "disconnect" /\ ~last'.raised)
          => /\ ClosedBefore(closed', "rpyc", "sftp")
             /\ ClosedBefore(closed', "sftp", "channel")
             /\ ClosedBefore(closed', "channel", "cli")]_vars

\* C2: after a disconnect() that returned no derived resource is cached any
\* more (so the next access to each invokes its factory and returns a new
\* instance), and a cached channel always belongs to the cached transport.
C2_FreshAfterDisconnect ==
    /\ (last.op = "disconnect" /\ ~last.raised)
           => \A k \in Kinds : cache[k] = Absent
    /\ \A k \in {"channel", "sftp"} :
           cache[k] # Absent => cache["cli"] = Obj(owner[k])

\* C3 as stated: of two accesses to the same derived resource that follow
\* each other with no disconnect() in between, the second does not invoke
\* the factory again (it was invoked exactly once, by the first at the
\* latest) and returns what the first returned.
C3_FactoryOnce ==
    [][\A k \in Kinds :
          (Got(k) /\ last'.op = "get" /\ last'.kind = k)
             => /\ k \notin invoked'
                /\ ~last'.raised
                /\ (~last.raised => last'.ret = last.ret)]_vars

\* C3 as amended: an access to a resource that is not cached invokes its
\* factory, and caches and returns what the factory returned, or raises what
\* it raised and caches nothing; an access while the resource is cached (by
\* that access or by one nested in it) never invokes its factory again and
\* returns the identical cached instance, which stays cached.
C3_CachedOnce ==
    [][\A k \in Kinds :
          (last'.op = "get")
             => /\ hasattr(Self, k)
                     => /\ k \notin invoked'
                        /\ cache'[k] = cache[k]
                        /\ last'.kind = k
                              => ~last'.raised /\ last'.ret = cache[k]
                /\ (~hasattr(Self, k) /\ last'.kind = k)
                     => /\ k \in invoked'
                        /\ IF last'.raised
                           THEN cache'[k] = Absent
                           ELSE cache'[k] = last'.ret /\ cache'[k] # Absent]_vars

\* C3's case: the transport, the second instance its factory made, was read
\* again while cached: no factory ran and the cached instance came back.
C3_Witness ==
    /\ Got("cli") /\ ~last.raised
    /\ invoked = {}
    /\ last.ret = cache["cli"]
    /\ cache["cli"] = Obj(2)

\* The close() that the last disconnect() called last raised.
CloseFailed ==
    /\ last.op = "disconnect" /\ last.raised
    /\ fault \in CloseFails

\* C4: when a close() raises during disconnect(), the close of every other
\* cached resource is still attempted (the channels of a closed transport
\* count as closed) and the cache is cleared.
C4_BestEffortClose ==
    [][(last'.op = "disconnect" /\ CloseFailed')
          => /\ \A k \in Kinds :
                   cache[k].t = "obj" => (k \in Range(closed') \/ ~open'[k])
             /\ \A k \in Kinds : cache'[k] = Absent]_vars

\* C5: whatever raises during the bridge bootstrap (a step of it, or the
\* creation of a resource it uses), the access to the bridge raises nothing
\* and returns None; it returns a bridge only when nothing raised.
C5_BootstrapNeverRaises ==
    Got("rpyc")
       => /\ ~last.raised
          /\ fault # NoFail => last.ret = None /\ cache["rpyc"] = None
          /\ last.ret.t = "obj" => fault = NoFail

\* C5's case: the upload of the archive failed.
C5_Witness ==
    /\ Got("rpyc")
    /\ fault = "put"
    /\ steps = <<"tar", "put">>
    /\ last.ret = None

\* C6: with None cached as the bridge, a disconnect() in which no close()
\* fails raises nothing and removes the transport, the plumbum machine and
\* the bridge from the cache.
C6_UsableWithoutBridge ==
    [][(cache["rpyc"] = None /\ last'.op = "disconnect" /\ fault' \notin CloseFails)
          => /\ ~last'.raised
             /\ \A k \in {"cli", "pbm", "rpyc"} : cache'[k] = Absent]_vars

\* C14: after a reconnect() that returned, a transport is cached and open,
\* and it is not the instance that was cached before the call.
C14_ReconnectOpens ==
    [][(last'.op = "reconnect" /\ ~last'.raised)
          => /\ cache'["cli"].t = "obj"
             /\ open'["cli"]
             /\ cache'["cli"] # cache["cli"]]_vars

\* The last operation ran the bootstrap.
Bootstrapped == Got("rpyc") /\ "rpyc" \in invoked

\* C15: after a bootstrap that produced the bridge, neither the archive nor
\* the sentinel is left on the local host or on the remote host.
C15_ArtifactsRemoved ==
    (Bootstrapped /\ last.ret.t = "obj")
       => /\ localfs \cap {"tar", "pid"} = {}
          /\ remotefs \cap {"tar", "pid"} = {}

\* C17: when a step of the bootstrap failed (it raised, or its command ended
\* with a status other than 0), it is the last step that was executed and
\* the bridge is None.
C17_FailureAborts ==
    (Bootstrapped /\ (fault # NoFail \/ badstatus # {}))
       => /\ last.ret = None
          /\ \A i \in 1..Len(steps) :
                 (steps[i] = fault \/ steps[i] \in badstatus) => i = Len(steps)

\* C18: a disconnect() invokes no factory and makes no instance; it calls
\* close() only on resources that were cached, and a cache entry stays or is
\* removed; with nothing cached it raises nothing, closes nothing and leaves
\* the Connection as it was.
C18_DisconnectFrame ==
    [][(last'.op = "disconnect")
          => /\ invoked' = {}
             /\ made' = made
             /\ Range(closed') \subseteq {k \in Kinds : cache[k].t = "obj"}
             /\ \A k \in Kinds : cache'[k] \in {cache[k], Absent}
             /\ \A k \in Kinds : open'[k] => open[k]
             /\ (\A k \in Kinds : cache[k] = Absent)
                   => /\ ~last'.raised
                      /\ closed' = <<>>
                      /\ cache' = cache
                      /\ open' = open
                      /\ owner' = owner
                      /\ <<localfs', remotefs'>> = <<localfs, remotefs>>]_vars

\* C18's case: disconnect() was called on a Connection that never had
\* anything cached.
C18_Witness ==
    /\ last.op = "disconnect" /\ ~last.raised
    /\ \A k \in Kinds : cache[k] = Absent /\ made[k] = 0
    /\ closed = <<>>

\* C19: a bootstrap that ends with no bridge leaves None cached, and an
\* access to the bridge while None is cached returns None and runs no step
\* of the bootstrap, invokes no factory and leaves None cached.
C19_NoneCached ==
    [][(last'.op = "get" /\ last'.kind = "rpyc")
          => /\ ("rpyc" \in invoked' /\ last'.ret = None)
                   => cache'["rpyc"] = None
             /\ cache["rpyc"] = None
                   => /\ ~last'.raised
                      /\ last'.ret = None
                      /\ steps' = <<>>
                      /\ invoked' = {}
                      /\ cache'["rpyc"] = None]_vars

\* C19's case: the bridge was read again after a bootstrap (rpyc is not
\* disabled) had cached None.
C19_Witness ==
    /\ Got("rpyc")
    /\ ~disable_rpyc
    /\ invoked = {} /\ steps = <<>>
    /\ last.ret = None /\ cache["rpyc"] = None

\* ================================================== the claims: SpecNew
ExplicitPair == {"private_hostname", "public_hostname"}

CloudPair == {"public_dns_name", "private_ip_address"}

\* C13: once constructed, the Connection's target (private_hostname, where
\* cli and pbm connect to, and hostname) is: the string, for a bare hostname;
\* private_hostname, for a dict with the explicit pair; and for a dict with
\* the cloud-instance pair (and not the explicit pair) public_dns_name when
\* that is not empty and private_ip_address when it is.
C13_TargetAddress ==
    last # NotYet
       => LET d == instance.dict
              target(x) == hostname = x /\ private_hostname = x
          IN  /\ instance.type = "str" => target(instance.str)
              /\ (instance.type = "dict" /\ ExplicitPair \subseteq DOMAIN d)
                    => target(d["private_hostname"])
              /\ (/\ instance.type = "dict"
                  /\ CloudPair \subseteq DOMAIN d
                  /\ ~(ExplicitPair \subseteq DOMAIN d))
                    => IF d["public_dns_name"] # ""
                       THEN target(d["public_dns_name"])
                       ELSE target(d["private_ip_address"])

\* C13's case: a cloud instance with an empty public_dns_name was given,
\* and the target is its private_ip_address.
C13_Witness ==
    /\ last = NoOp
    /\ instance.type = "dict"
    /\ DOMAIN instance.dict = CloudPair
    /\ instance.dict["public_dns_name"] = ""
    /\ instance.dict["private_ip_address"] = "b"
    /\ private_hostname = "b"

\* ================================================== the claims: SpecRun
\* C7: a call on a command that never reports an exit status is never stuck
\* (while it has not returned, its loop or its stderr read can go on), and
\* what it returns is None.
C7_ReturnsUnknown ==
    ~cmd.exits
       => /\ pc \in {"loop", "drain"} => ENABLED (Poll \/ Drain)
          /\ (pc = "done" /\ ~last.raised) => status = None

\* C8: when the loop polled, within the deadline, the command that had
\* written its output, reported its exit status and ended its streams, the
\* call returns that status, last_stdout is all the command wrote to stdout
\* and last_stderr all it wrote to stderr.
C8_CompleteOutput ==
    (pc = "done" /\ ~last.raised /\ polled)
       => /\ status = Status(cmd.code)
          /\ last_stdout = Bytes(1, chan.outSent)
          /\ last_stderr = Bytes(1, chan.errSent)

\* C12: a call of expect_retval whose recv_exit_status returned raises
\* ExpectFailed exactly when the status is None or differs from
\* expected_status, and returns exactly when the two are equal; a status of
\* None with an expected status of 0 raises.
C12_RetvalChecked ==
    (pc = "done" /\ expected_status # Absent /\ ~last.raised)
       => /\ verdict = "ExpectFailed"
                <=> (status = None \/ status # expected_status)
          /\ verdict = "returned" <=> status = expected_status
          /\ (status = None /\ expected_status = Status(0))
                => verdict = "ExpectFailed"

\* C12's case: expect_retval(command, 0, timeout) whose command had not
\* reported a status by the deadline raised ExpectFailed.
C12_Witness ==
    /\ pc = "done" /\ ~last.raised
    /\ expected_status = Status(0)
    /\ status = None
    /\ verdict = "ExpectFailed"

\* C16: a pass of the loop made within the deadline while the command has
\* posted its exit status leaves the loop.
C16_ExitsAtOnce ==
    [][(Poll /\ now <= timeout /\ chan.exited) => pc' = "drain"]_vars

\* =============================================== the claims: SpecExpect
\* This step is a tick of expect_list: a pass of its loop that read the channel.
IsTick ==
    /\ epc = "loop" /\ count < exp_timeout
    /\ outcome'.kind # "error"
    /\ epc' # epc \/ count' # count

Min(S) == CHOOSE x \in S : \A y \in S : x <= y

IsPrefix(a, b) == Len(a) <= Len(b) /\ SubSeq(b, 1, Len(a)) = a

\* The string a occurs in the string b.
Contains(a, b) ==
    \E j \in 1..(Len(b) + 1) :
        j + Len(a) - 1 <= Len(b) /\ SubSeq(b, j, j + Len(a) - 1) = a

Literal(pat) == DotStar \notin Range(pat)

\* The characters of a pattern.
Text(pat) == SelectSeq(pat, LAMBDA a : a # DotStar)

\* What Python's re.match answers for the patterns of PatternLists: a
\* pattern of characters matches a string that starts with them, and one
\* that starts with ".*" matches a string its characters occur in.
MatchesAtStart(pat, buf) ==
    IF Literal(pat) THEN IsPrefix(pat, buf) ELSE Contains(Text(pat), buf)

\* C9: a tick appends what it read to the buffer and tries the pairs, in
\* the order given, on the whole buffer: it returns the value of the
\* earliest pair whose pattern matches, on the first tick in which one
\* matches, and goes on to the next tick when none does.
C9_FirstMatchWins ==
    [][IsTick
          => LET hits == {i \in 1..Len(regexp_list) :
                             re_match(regexp_list[i].regexp, result')}
             IN  /\ IsPrefix(result, result')
                 /\ IF hits = {}
                    THEN epc' = "loop" /\ count' = count + 1 /\ outcome' = outcome
                    ELSE /\ epc' = "done"
                         /\ outcome'.kind = "return"
                         /\ outcome'.value = regexp_list[Min(hits)].retvalue]_vars

\* C9's case: both "b" and "bar" matched the buffer on the tick that
\* returned, and the value of "b", the earlier pair, came back.
C9_Witness ==
    /\ regexp_list = <<Pair(<<"b">>, "A"), Pair(Bar, "B")>>
    /\ epc = "done"
    /\ IsPrefix(Bar, result)
    /\ outcome.kind = "return" /\ outcome.value = "A"

\* C10 as stated, for the pairs ("foo", "A"), ("bar", "B"): a tick after
\* which "foo" or "bar" occurs anywhere in the buffer returns a value, and
\* with "xbarx" read in one tick it returns "B".
C10_MatchAnywhere ==
    [][(IsTick /\ regexp_list = FooBar)
          => /\ (Contains(Foo, result') \/ Contains(Bar, result'))
                  => outcome'.kind = "return"
             /\ result' = XBarX => outcome'.value = "B"]_vars

\* C10 as amended: a tick returns a pair's value exactly when its pattern
\* matches at the start of the buffer (text preceded by other characters
\* matches only a pattern that allows for them, as the ".*text.*" of expect
\* does); with the pairs ("foo", "A"), ("bar", "B") and "xbarx" read in one
\* tick nothing is returned, and the call ends raising ExpectFailed("xbarx").
C10_MatchAtStart ==
    [][/\ IsTick
          => /\ (\E i \in 1..Len(regexp_list) :
                     MatchesAtStart(regexp_list[i].regexp, result'))
                  <=> outcome'.kind = "return"
             /\ outcome'.kind = "return"
                  => \E i \in 1..Len(regexp_list) :
                        /\ regexp_list[i].retvalue = outcome'.value
                        /\ MatchesAtStart(regexp_list[i].regexp, result')
             /\ (regexp_list = FooBar /\ IsPrefix(<<"x">>, result'))
                  => outcome'.kind # "return"
       /\ (regexp_list = FooBar /\ received' = <<XBarX>>)
          => /\ outcome'.kind # "return"
             /\ epc' = "done"
                  => outcome' = [kind |-> "ExpectFailed", value |-> "",
                                 payload |-> XBarX]]_vars

\* C10's case: "xbarx" was read in one tick against ("foo", "A"), ("bar",
\* "B") and the call ended raising ExpectFailed("xbarx").
C10_Witness ==
    /\ regexp_list = FooBar
    /\ received = <<XBarX>>
    /\ epc = "done"
    /\ outcome = [kind |-> "ExpectFailed", value |-> "", payload |-> XBarX]

\* The concatenation of the chunks, in order.
RECURSIVE Joined(_)
Joined(chunks) ==
    IF chunks = <<>> THEN <<>> ELSE Head(chunks) \o Joined(Tail(chunks))

\* C11: in a run of expect_list or of match the buffer is, after every
\* tick, the concatenation in arrival order of the chunks recv returned so
\* far; ExpectFailed is raised only when the ticks are used up, and its
\* payload is that buffer: the concatenation of all chunks received.
C11_PayloadIsAllReceived ==
    /\ epc \in {"loop", "match", "done"} => result = Joined(received)
    /\ outcome.kind = "ExpectFailed"
          => /\ outcome.payload = Joined(received)
             /\ count >= exp_timeout

\* C11's case: with a timeout of 2, expect_list read a chunk in each tick,
\* nothing matched, and ExpectFailed carries the first chunk followed by the
\* second.
C11_Witness ==
    /\ epc = "done" /\ regexp_list = FooBar /\ exp_timeout = 2
    /\ received = << <<"x">>, Bar >>
    /\ outcome = [kind |-> "ExpectFailed", value |-> "",
                  payload |-> <<"x", "b", "a", "r">>]

\* Every group asked for is group 0 or a group of the expression.
GroupsExist ==
    \A i \in 1..Len(grouplist) : grouplist[i] \in Groups(match_regexp) \cup {0}

\* C20: a run of expect_list or of match calls recv at most timeout times
\* (never, with a timeout of 0 or less); while it has not ended its next
\* tick can be taken; and with a working channel, and for match groups that
\* exist, it ends returning a value or raising ExpectFailed, with an empty
\* payload when the timeout is 0 or less.
C20_BoundedAndEnds ==
    /\ reads <= (IF exp_timeout > 0 THEN exp_timeout ELSE 0)
    /\ epc \in {"loop", "match"} => ENABLED (ExpectTick \/ MatchTick)
    /\ (epc = "done" /\ outcome.kind # "error" /\ GroupsExist)
          => /\ outcome.kind \in {"return", "ExpectFailed"}
             /\ exp_timeout <= 0
                   => outcome = [kind |-> "ExpectFailed", value |-> "",
                                 payload |-> <<>>]

====
